---- MODULE Spec2Model ----
(***************************************************************************)
(* Model of package structflag (surajbarkale/structflag).                  *)
(*                                                                         *)
(*  - Spec      : StructToFlagsConverter.Convert, the recursive walk of    *)
(*                reflectStructToFlags over a caller-owned aggregate.      *)
(*  - ValueSpec : one reflectedValue adapter (String / Set / Get /         *)
(*                IsBoolFlag / Description) bound to a caller's variable.  *)
(*                                                                         *)
(* Text is modelled as a sequence of one-character strings, so that        *)
(* joining, upper-casing, formatting and parsing are computed, not assumed.*)
(***************************************************************************)
EXTENDS Integers, Sequences, FiniteSets, TLC

VARIABLES
    \* ---- converter / walker state (Spec) ----
    conv,       \* the StructToFlagsConverter: WordSeparator, DescriptionTag, NameConverterFunc
    rootType,   \* struct type of the caller's root aggregate
    rootDepth,  \* levels of pointer on Convert's argument: 0 = struct value, 1 = *T, 2 = **T
    heap,       \* struct instances: heap[id] = [type, f], f[i] = 0 (nil / leaf) or an instance id
    stack,      \* active reflectStructToFlags frames, innermost last
    output,     \* the map[string]Value being filled: path -> adapter
    fresh,      \* ids of the struct instances allocated by the walk itself (line 62)
    pc,         \* "caller" | "walk" | "returned" | "panic" | "overflow"
    \* ---- adapter state (ValueSpec) ----
    vtype,      \* static type of the bound variable: [ptr, base]
    mem,        \* caller memory: mem[1] is the bound variable, other cells are referents
    alias,      \* a second caller pointer taken before the call (0 = none)
    vdesc,      \* reflectedValue.description
    last        \* the last adapter call: operation, argument, result, state before it

walkVars  == <<conv, rootType, rootDepth, heap, stack, output, fresh, pc>>
valueVars == <<vtype, mem, alias, vdesc, last>>
vars      == <<conv, rootType, rootDepth, heap, stack, output, fresh, pc,
               vtype, mem, alias, vdesc, last>>

(***************************************************************************)
(* Bounds of the model.                                                    *)
(***************************************************************************)
\* Goroutine stack, counted in reflectStructToFlags frames: a call that
\* would exceed it is the runtime's fatal stack overflow.
MaxDepth == 4
\* Struct instances the caller may have allocated before calling Convert.
MaxCallerObjs == 4
\* Length of the exhaustively enumerated argument texts of Set.
MaxTextLen == 1

(***************************************************************************)
(* Characters and names.                                                   *)
(***************************************************************************)
LowerLetters == <<"a","b","c","d","e","f","g","h","i","j","k","l","m",
                  "n","o","p","q","r","s","t","u","v","w","x","y","z">>
UpperLetters == <<"A","B","C","D","E","F","G","H","I","J","K","L","M",
                  "N","O","P","Q","R","S","T","U","V","W","X","Y","Z">>

Range(s) == {s[i] : i \in DOMAIN s}

\* unicode.ToUpper on one character of the model's alphabet
UpperChar(c) ==
    IF c \in Range(LowerLetters)
    THEN UpperLetters[CHOOSE i \in DOMAIN LowerLetters : LowerLetters[i] = c]
    ELSE c

\* strings.ToUpper
ToUpper(s) == [i \in DOMAIN s |-> UpperChar(s[i])]

\* The NameConverterFunc values the model draws from: the default identity
\* (line 38) and strings.ToUpper (TestCustomNameFunction).
NameFuncs == {"identity", "upper"}

NameConverterFunc(fn, s) == IF fn = "upper" THEN ToUpper(s) ELSE s

\* WordSeparator values: the default "-", "." (TestCustomSeparator), "_" and "".
Separators == {<<"-">>, <<".">>, <<"_">>, <<>>}

\* DescriptionTag values: the default, "usage" (TestDescriptionTag), and disabled.
DescriptionTags == {"description", "usage", ""}

(***************************************************************************)
(* Struct types.  Each is a sequence of field declarations.                *)
(*   kind     : reflect.Kind of the field                                  *)
(*   elemKind : for kind "ptr", the Kind of the pointed-to type            *)
(*   typ      : the struct type, for a struct or pointer-to-struct field   *)
(*   tag      : the struct tag, key -> value                               *)
(***************************************************************************)
NoTag == [k \in {} |-> ""]

Leaf(name, kind)       == [name |-> name, kind |-> kind, elemKind |-> "", typ |-> "", tag |-> NoTag]
LeafT(name, kind, tag) == [name |-> name, kind |-> kind, elemKind |-> "", typ |-> "", tag |-> tag]
PtrTo(name, ek)        == [name |-> name, kind |-> "ptr", elemKind |-> ek, typ |-> "", tag |-> NoTag]
PtrToT(name, ek, tag)  == [name |-> name, kind |-> "ptr", elemKind |-> ek, typ |-> "", tag |-> tag]
Struct(name, t)        == [name |-> name, kind |-> "struct", elemKind |-> "", typ |-> t, tag |-> NoTag]
PtrStruct(name, t)     == [name |-> name, kind |-> "ptr", elemKind |-> "struct", typ |-> t, tag |-> NoTag]

Desc(d)  == [k \in {"description"} |-> d]
Usage(d) == [k \in {"usage"} |-> d]

Types ==
    [ \* struct_to_flags_test.go: type nested
      nested |-> << Leaf(<<"I","n","t">>, "int"),
                    PtrTo(<<"I","n","t","P","t","r">>, "int"),
                    Leaf(<<"F","l","o","a","t">>, "float32"),
                    PtrTo(<<"F","l","o","a","t","P","t","r">>, "float32"),
                    Leaf(<<"p","r","i","v","a","t","e">>, "int") >>,
      \* struct_to_flags_test.go: type param
      param  |-> << Struct(<<"N","e","s","t","e","d">>, "nested"),
                    PtrStruct(<<"N","e","s","t","e","d","P","t","r">>, "nested"),
                    Leaf(<<"S","t","r","i","n","g">>, "string"),
                    PtrTo(<<"S","t","r","i","n","g","P","t","r">>, "string"),
                    Leaf(<<"I","n","t","A","r","r","a","y">>, "slice") >>,
      \* doc example of DefaultStructToFlagsConverter: type extra, type args
      extra  |-> << Leaf(<<"W","r","a","p","L","i","n","e","s">>, "bool"),
                    Leaf(<<"P","a","g","e","s">>, "slice") >>,
      args   |-> << LeafT(<<"D","e","b","u","g">>, "bool", Desc("Enable debug mode")),
                    PtrToT(<<"I","n","p","u","t","F","i","l","e">>, "string", Desc("Name of input file")),
                    PtrStruct(<<"E","x","t","r","a">>, "extra") >>,
      \* TestDescriptionTag: anonymous struct
      tagged |-> << LeafT(<<"P","a","r","a","m","1">>, "int", Usage("The first parameter")),
                    LeafT(<<"I","n","p","u","t">>, "string", Usage("Input string")) >>,
      \* a struct holding a pointer to its own type
      node   |-> << Leaf(<<"V","a","l">>, "int"),
                    PtrStruct(<<"N","e","x","t">>, "node") >>,
      \* legal Go field names that differ only by case or by an underscore
      inner  |-> << Leaf(<<"B">>, "int") >>,
      clash  |-> << Struct(<<"A">>, "inner"),
                    Leaf(<<"A","_","B">>, "int"),
                    Leaf(<<"A","b">>, "bool"),
                    Leaf(<<"A","B">>, "string") >>,
      \* struct{}
      empty  |-> << >> ]

TypeNames == DOMAIN Types

\* reflect.StructTag.Get
TagGet(tag, key) == IF key \in DOMAIN tag THEN tag[key] ELSE ""

\* A field is exported when its name starts with an upper-case letter.
IsExported(name) == Len(name) > 0 /\ name[1] \in Range(UpperLetters)

(***************************************************************************)
(* reflect.New(T).Elem(): a zero struct of type T appended to the heap;    *)
(* struct-typed fields are zero structs of their own, pointers are nil.    *)
(* The new instance has id Len(h) + 1.                                     *)
(***************************************************************************)
RECURSIVE New(_, _), NewFields(_, _, _, _)
New(h, T) ==
    NewFields(Append(h, [type |-> T, f |-> [i \in 1..Len(Types[T]) |-> 0]]),
              Len(h) + 1, T, 1)
NewFields(h, id, T, i) ==
    IF i > Len(Types[T]) THEN h
    ELSE IF Types[T][i].kind = "struct"
         THEN NewFields([New(h, Types[T][i].typ) EXCEPT ![id].f[i] = Len(h) + 1], id, T, i + 1)
         ELSE NewFields(h, id, T, i + 1)

(***************************************************************************)
(* reflectStructToFlags, one loop iteration per step.                      *)
(* A frame is one activation: the prefix, the struct being walked (after   *)
(* reflect.Indirect), the loop index i (1-based), and whether the struct   *)
(* value is addressable (it was reached through a pointer).                *)
(***************************************************************************)
Top == stack[Len(stack)]

Frame(prefix, obj, addr) ==
    [prefix |-> prefix, obj |-> obj, type |-> heap[obj].type, i |-> 1, addr |-> addr]

\* input.NumField()
NumField(fr) == Len(Types[fr.type])

\* inputType.Field(i)
FieldDecl(fr) == Types[fr.type][fr.i]

\* Variant of CanSet that forgets the export rule.
CanSet_Addressable(fr, fd) == fr.addr

\* field.CanSet(): addressable and not reached through an unexported field
CanSet(fr, fd) == fr.addr /\ IsExported(fd.name)

\* Variant of IsStructField that forgets the pointer-to-struct case.
IsStructField_StructOnly(fd) == fd.kind = "struct"

\* line 59: the field is a struct or a pointer to a struct
IsStructField(fd) ==
    fd.kind = "struct" \/ (fd.kind = "ptr" /\ fd.elemKind = "struct")

\* Variant of FieldPath that drops the accumulated prefix.
FieldPath_NoPrefix(prefix, fd) == NameConverterFunc(conv.NameConverterFunc, fd.name)

\* line 57: fieldPath := prefix + thiz.NameConverterFunc(inputType.Field(i).Name)
FieldPath(prefix, fd) == prefix \o NameConverterFunc(conv.NameConverterFunc, fd.name)

\* lines 61-63: a nil struct pointer is set to a new zero struct
AllocIfNil(h, obj, i, fd) ==
    IF fd.kind = "ptr" /\ h[obj].f[i] = 0
    THEN [New(h, fd.typ) EXCEPT ![obj].f[i] = Len(h) + 1]
    ELSE h

\* lines 66-69
DescriptionOf(fd) ==
    IF conv.DescriptionTag # "" THEN TagGet(fd.tag, conv.DescriptionTag) ELSE ""

\* NewReflectedValue(field, description); the target is the field's slot
NewReflectedValue(obj, i, description) ==
    [target |-> <<obj, i>>, description |-> description]

\* output[key] = value
MapSet(m, key, value) ==
    [k \in DOMAIN m \cup {key} |-> IF k = key THEN value ELSE m[k]]

EmptyMap == [k \in {} |-> 0]

\* The adapter part is idle while the converter runs.
IdleValue ==
    /\ vtype = [ptr |-> FALSE, base |-> "bool"]
    /\ mem = << >>
    /\ alias = 0
    /\ vdesc = ""
    /\ last = [op |-> "none"]

Init ==
    /\ conv \in [WordSeparator : Separators,
                 DescriptionTag : DescriptionTags,
                 NameConverterFunc : NameFuncs]
    /\ rootType \in TypeNames
    /\ rootDepth \in 0..2
    /\ heap = New(<< >>, rootType)
    /\ stack = << >>
    /\ output = EmptyMap
    /\ fresh = {}
    /\ pc = "caller"
    /\ IdleValue

\* Before the call the caller may have filled in some nested struct pointers
\* (e.g. args{Extra: &extra{}}).
CallerAlloc ==
    /\ pc = "caller"
    /\ \E obj \in DOMAIN heap :
         \E i \in DOMAIN Types[heap[obj].type] :
            LET fd == Types[heap[obj].type][i] IN
            /\ fd.kind = "ptr" /\ fd.elemKind = "struct"
            /\ heap[obj].f[i] = 0
            /\ Len(New(heap, fd.typ)) <= MaxCallerObjs
            /\ heap' = [New(heap, fd.typ) EXCEPT ![obj].f[i] = Len(heap) + 1]
    /\ UNCHANGED <<conv, rootType, rootDepth, stack, output, fresh, pc>>
    /\ UNCHANGED valueVars

\* Convert(input) with input a struct or a pointer to a struct: lines 42-43
\* and the entry of reflectStructToFlags (lines 48-49).  reflect.Indirect
\* removes one pointer level; a struct passed by value is not addressable.
ConvertCall ==
    /\ pc = "caller"
    /\ rootDepth \in {0, 1}
    /\ output' = EmptyMap
    /\ stack' = << Frame(<< >>, 1, rootDepth = 1) >>
    /\ pc' = "walk"
    /\ UNCHANGED <<conv, rootType, rootDepth, heap, fresh>>
    /\ UNCHANGED valueVars

\* Convert(&a) with a itself a pointer: reflect.Indirect (line 48) leaves a
\* value of Kind Ptr, and input.NumField() (line 50) panics on it.
ConvertPanic ==
    /\ pc = "caller"
    /\ rootDepth = 2
    /\ output' = EmptyMap
    /\ pc' = "panic"
    /\ UNCHANGED <<conv, rootType, rootDepth, heap, stack, fresh>>
    /\ UNCHANGED valueVars

\* lines 53-55
SkipUnsettable ==
    /\ pc = "walk"
    /\ Top.i <= NumField(Top)
    /\ ~CanSet(Top, FieldDecl(Top))
    /\ stack' = [stack EXCEPT ![Len(stack)].i = @ + 1]
    /\ UNCHANGED <<conv, rootType, rootDepth, heap, output, fresh, pc>>
    /\ UNCHANGED valueVars

\* lines 59-64: allocate if nil, then call reflectStructToFlags on the field
Recurse ==
    /\ pc = "walk"
    /\ Top.i <= NumField(Top)
    /\ CanSet(Top, FieldDecl(Top))
    /\ IsStructField(FieldDecl(Top))
    /\ Len(stack) < MaxDepth
    /\ LET fd == FieldDecl(Top)
           h  == AllocIfNil(heap, Top.obj, Top.i, fd)
       IN /\ heap' = h
          /\ fresh' = fresh \cup (DOMAIN h \ DOMAIN heap)
          /\ stack' = Append(stack,
                 [prefix |-> FieldPath(Top.prefix, fd) \o conv.WordSeparator,
                  obj    |-> h[Top.obj].f[Top.i],
                  type   |-> fd.typ,
                  i      |-> 1,
                  addr   |-> TRUE])
    /\ UNCHANGED <<conv, rootType, rootDepth, output, pc>>
    /\ UNCHANGED valueVars

\* The same call when the goroutine stack is exhausted: a fatal error.
RecurseOverflow ==
    /\ pc = "walk"
    /\ Top.i <= NumField(Top)
    /\ CanSet(Top, FieldDecl(Top))
    /\ IsStructField(FieldDecl(Top))
    /\ Len(stack) >= MaxDepth
    /\ heap' = AllocIfNil(heap, Top.obj, Top.i, FieldDecl(Top))
    /\ fresh' = fresh \cup (DOMAIN heap' \ DOMAIN heap)
    /\ pc' = "overflow"
    /\ UNCHANGED <<conv, rootType, rootDepth, stack, output>>
    /\ UNCHANGED valueVars

\* lines 65-71
EmitLeaf ==
    /\ pc = "walk"
    /\ Top.i <= NumField(Top)
    /\ CanSet(Top, FieldDecl(Top))
    /\ ~IsStructField(FieldDecl(Top))
    /\ output' = MapSet(output, FieldPath(Top.prefix, FieldDecl(Top)),
                        NewReflectedValue(Top.obj, Top.i, DescriptionOf(FieldDecl(Top))))
    /\ stack' = [stack EXCEPT ![Len(stack)].i = @ + 1]
    /\ UNCHANGED <<conv, rootType, rootDepth, heap, fresh, pc>>
    /\ UNCHANGED valueVars

\* the loop ends (line 50): return to the calling frame, which moves on to
\* its next field
ReturnFrame ==
    /\ pc = "walk"
    /\ Len(stack) > 1
    /\ Top.i > NumField(Top)
    /\ stack' = [SubSeq(stack, 1, Len(stack) - 1) EXCEPT ![Len(stack) - 1].i = @ + 1]
    /\ UNCHANGED <<conv, rootType, rootDepth, heap, output, fresh, pc>>
    /\ UNCHANGED valueVars

\* the outermost call returns; Convert returns output (line 44)
ConvertReturn ==
    /\ pc = "walk"
    /\ Len(stack) = 1
    /\ Top.i > NumField(Top)
    /\ stack' = << >>
    /\ pc' = "returned"
    /\ UNCHANGED <<conv, rootType, rootDepth, heap, output, fresh>>
    /\ UNCHANGED valueVars

Next ==
    \/ CallerAlloc
    \/ ConvertCall
    \/ ConvertPanic
    \/ SkipUnsettable
    \/ Recurse
    \/ RecurseOverflow
    \/ EmitLeaf
    \/ ReturnFrame
    \/ ConvertReturn

Spec == Init /\ [][Next]_vars

(***************************************************************************)
(* Text conversions used by the adapter (strconv, fmt), on character       *)
(* sequences.  Numerals in the model have fewer than ten digits.           *)
(***************************************************************************)
Digits == <<"0","1","2","3","4","5","6","7","8","9">>

IsDigit(c) == c \in Range(Digits)

DigitVal(c) == (CHOOSE i \in DOMAIN Digits : Digits[i] = c) - 1

AllDigits(s) == \A i \in DOMAIN s : IsDigit(s[i])

\* value of a sequence of decimal digits
RECURSIVE DigitsValue(_)
DigitsValue(s) ==
    IF Len(s) = 0 THEN 0
    ELSE 10 * DigitsValue(SubSeq(s, 1, Len(s) - 1)) + DigitVal(s[Len(s)])

RECURSIVE StripLeadingZeros(_)
StripLeadingZeros(s) ==
    IF Len(s) > 0 /\ s[1] = "0" THEN StripLeadingZeros(Tail(s)) ELSE s

\* a > b for digit sequences of equal length
RECURSIVE DigitsGreater(_, _)
DigitsGreater(a, b) ==
    IF Len(a) = 0 THEN FALSE
    ELSE IF a[1] # b[1] THEN DigitVal(a[1]) > DigitVal(b[1])
         ELSE DigitsGreater(Tail(a), Tail(b))

\* 2^64 - 1 and 2^63, as digits
MaxUint64Digits == <<"1","8","4","4","6","7","4","4","0","7","3","7","0","9","5","5","1","6","1","5">>
MinInt64Digits  == <<"9","2","2","3","3","7","2","0","3","6","8","5","4","7","7","5","8","0","8">>

\* digits denote a number above limit
ExceedsDigits(ds, limit) ==
    LET d == StripLeadingZeros(ds) IN
    \/ Len(d) > Len(limit)
    \/ (Len(d) = Len(limit) /\ DigitsGreater(d, limit))

\* strconv.ParseUint(s, 10, 64): digits only, no sign
ParseUint(s) ==
    IF Len(s) = 0 \/ ~AllDigits(s) THEN [err |-> TRUE, val |-> 0]
    ELSE IF ExceedsDigits(s, MaxUint64Digits) THEN [err |-> TRUE, val |-> 0]
    ELSE [err |-> FALSE, val |-> DigitsValue(s)]

\* strconv.ParseInt(s, 10, 64): optional sign, then digits
ParseInt(s) ==
    IF Len(s) = 0 THEN [err |-> TRUE, val |-> 0]
    ELSE LET neg  == s[1] = "-"
             body == IF s[1] \in {"+", "-"} THEN Tail(s) ELSE s
         IN IF Len(body) = 0 \/ ~AllDigits(body) THEN [err |-> TRUE, val |-> 0]
            ELSE IF ExceedsDigits(body, MinInt64Digits) THEN [err |-> TRUE, val |-> 0]
            ELSE IF ~neg /\ StripLeadingZeros(body) = MinInt64Digits THEN [err |-> TRUE, val |-> 0]
            ELSE [err |-> FALSE,
                  val |-> IF neg THEN 0 - DigitsValue(body) ELSE DigitsValue(body)]

\* strconv.ParseBool
ParseBool(s) ==
    IF s \in { <<"1">>, <<"t">>, <<"T">>, <<"T","R","U","E">>,
               <<"t","r","u","e">>, <<"T","r","u","e">> }
    THEN [err |-> FALSE, val |-> TRUE]
    ELSE IF s \in { <<"0">>, <<"f">>, <<"F">>, <<"F","A","L","S","E">>,
                    <<"f","a","l","s","e">>, <<"F","a","l","s","e">> }
    THEN [err |-> FALSE, val |-> FALSE]
    ELSE [err |-> TRUE, val |-> FALSE]

\* decimal digits of a natural number
RECURSIVE FormatNat(_)
FormatNat(n) ==
    IF n < 10 THEN << Digits[n + 1] >>
    ELSE Append(FormatNat(n \div 10), Digits[(n % 10) + 1])

\* fmt.Sprint of an integer
FormatInt(n) == IF n < 0 THEN <<"-">> \o FormatNat(0 - n) ELSE FormatNat(n)

\* fmt.Sprint of a bool
FormatBool(b) == IF b THEN <<"t","r","u","e">> ELSE <<"f","a","l","s","e">>

\* width in bits of the integer kinds of the model
Bits(kind) == IF kind = "int16" THEN 16 ELSE 8

RECURSIVE Pow2(_)
Pow2(n) == IF n = 0 THEN 1 ELSE 2 * Pow2(n - 1)

\* Value.OverflowInt
OverflowInt(kind, x) ==
    x < 0 - Pow2(Bits(kind) - 1) \/ x > Pow2(Bits(kind) - 1) - 1

\* Value.OverflowUint
OverflowUint(kind, x) == x >= Pow2(Bits(kind))

\* Value.SetInt: the conversion to the field's width truncates
SetInt(kind, x) ==
    LET m == x % Pow2(Bits(kind))
    IN IF m >= Pow2(Bits(kind) - 1) THEN m - Pow2(Bits(kind)) ELSE m

\* Value.SetUint
SetUint(kind, x) == x % Pow2(Bits(kind))

(***************************************************************************)
(* encoding/json on character sequences: strings, numbers, the literals    *)
(* null / true / false and arrays.  Objects are outside the model: no      *)
(* argument text of the model contains a brace.                            *)
(* A parsed value is [ok, pos, k, val]: pos is the position after it,      *)
(* k its kind ("str", "num", "null", "bool", "arr").                       *)
(***************************************************************************)
JsonSpace == {" ", "\t", "\n", "\r"}

HexDigits == Range(Digits) \cup {"a","b","c","d","e","f","A","B","C","D","E","F"}

RECURSIVE SkipWs(_, _)
SkipWs(s, p) ==
    IF p <= Len(s) /\ s[p] \in JsonSpace THEN SkipWs(s, p + 1) ELSE p

\* position after the run of digits starting at p
RECURSIVE DigitRun(_, _)
DigitRun(s, p) ==
    IF p <= Len(s) /\ IsDigit(s[p]) THEN DigitRun(s, p + 1) ELSE p

JFail == [ok |-> FALSE, pos |-> 0, k |-> "", val |-> << >>]

\* the character an escape letter stands for ("<BS>", "<FF>": backspace, form feed)
Unescape(e) ==
    CASE e = "b" -> "<BS>"
      [] e = "f" -> "<FF>"
      [] e = "n" -> "\n"
      [] e = "r" -> "\r"
      [] e = "t" -> "\t"
      [] OTHER   -> e

\* the body of a string literal, from p (after the opening quote)
RECURSIVE JStringBody(_, _, _)
JStringBody(s, p, acc) ==
    IF p > Len(s) THEN JFail
    ELSE IF s[p] = "\"" THEN [ok |-> TRUE, pos |-> p + 1, k |-> "str", val |-> acc]
    ELSE IF s[p] \in {"\t", "\n", "\r", "<BS>", "<FF>"} THEN JFail
    ELSE IF s[p] = "\\" THEN
        IF p + 1 > Len(s) THEN JFail
        ELSE IF s[p + 1] \in {"\"", "\\", "/", "b", "f", "n", "r", "t"}
             THEN JStringBody(s, p + 2, Append(acc, Unescape(s[p + 1])))
        ELSE IF s[p + 1] = "u" /\ p + 5 <= Len(s)
                /\ \A i \in (p + 2)..(p + 5) : s[i] \in HexDigits
             THEN JStringBody(s, p + 6,
                      Append(acc, "\\u" \o s[p + 2] \o s[p + 3] \o s[p + 4] \o s[p + 5]))
        ELSE JFail
    ELSE JStringBody(s, p + 1, Append(acc, s[p]))

\* a number literal from p: -? (0 | [1-9][0-9]*) (. [0-9]+)? ([eE] [+-]? [0-9]+)?
\* JNumEnd: the literal s[p .. q-1] is complete
JNumEnd(s, p, q) == [ok |-> TRUE, pos |-> q, k |-> "num", val |-> SubSeq(s, p, q - 1)]

\* exponent digits from e to q-1
JNumExpDigits(s, p, e, q) == IF q > e THEN JNumEnd(s, p, q) ELSE JFail

\* after the fraction, at q: an optional exponent
JNumExp(s, p, q) ==
    IF q <= Len(s) /\ s[q] \in {"e", "E"}
    THEN (IF q + 1 <= Len(s) /\ s[q + 1] \in {"+", "-"}
          THEN JNumExpDigits(s, p, q + 2, DigitRun(s, q + 2))
          ELSE JNumExpDigits(s, p, q + 1, DigitRun(s, q + 1)))
    ELSE JNumEnd(s, p, q)

\* fraction digits from f to q-1
JNumFracDigits(s, p, f, q) == IF q > f THEN JNumExp(s, p, q) ELSE JFail

\* after the integer part, at q: an optional fraction
JNumFrac(s, p, q) ==
    IF q <= Len(s) /\ s[q] = "." THEN JNumFracDigits(s, p, q + 1, DigitRun(s, q + 1))
    ELSE JNumExp(s, p, q)

\* the integer part from i: a single 0, or digits not starting with 0
JNumInt(s, p, i) ==
    IF i > Len(s) \/ ~IsDigit(s[i]) THEN JFail
    ELSE IF s[i] = "0" THEN JNumFrac(s, p, i + 1)
    ELSE JNumFrac(s, p, DigitRun(s, i))

JNumber(s, p) == IF s[p] = "-" THEN JNumInt(s, p, p + 1) ELSE JNumInt(s, p, p)

StartsWith(s, p, w) == p + Len(w) - 1 <= Len(s) /\ SubSeq(s, p, p + Len(w) - 1) = w

RECURSIVE JValue(_, _), JElems(_, _, _), JElemSep(_, _, _), JElemNext(_, _, _)
JValue(s, p) ==
    IF p > Len(s) THEN JFail
    ELSE IF s[p] = "\"" THEN JStringBody(s, p + 1, << >>)
    ELSE IF s[p] = "-" \/ IsDigit(s[p]) THEN JNumber(s, p)
    ELSE IF StartsWith(s, p, <<"n","u","l","l">>)
         THEN [ok |-> TRUE, pos |-> p + 4, k |-> "null", val |-> << >>]
    ELSE IF StartsWith(s, p, <<"t","r","u","e">>)
         THEN [ok |-> TRUE, pos |-> p + 4, k |-> "bool", val |-> << >>]
    ELSE IF StartsWith(s, p, <<"f","a","l","s","e">>)
         THEN [ok |-> TRUE, pos |-> p + 5, k |-> "bool", val |-> << >>]
    ELSE IF s[p] = "["
         THEN LET q == SkipWs(s, p + 1) IN
              IF q <= Len(s) /\ s[q] = "]"
              THEN [ok |-> TRUE, pos |-> q + 1, k |-> "arr", val |-> << >>]
              ELSE JElems(s, q, << >>)
    ELSE JFail
\* the elements of an array from p (at an element), up to the closing bracket
JElems(s, p, acc) == JElemSep(s, acc, JValue(s, p))
\* after the element v: a comma and more elements, or the closing bracket
JElemSep(s, acc, v) ==
    IF ~v.ok THEN JFail ELSE JElemNext(s, Append(acc, [k |-> v.k, val |-> v.val]), SkipWs(s, v.pos))
JElemNext(s, acc, q) ==
    IF q > Len(s) THEN JFail
    ELSE IF s[q] = "," THEN JElems(s, SkipWs(s, q + 1), acc)
    ELSE IF s[q] = "]" THEN [ok |-> TRUE, pos |-> q + 1, k |-> "arr", val |-> acc]
    ELSE JFail

\* a whole document: one value surrounded by optional white space
JWhole(s, v) == IF v.ok /\ SkipWs(s, v.pos) > Len(s) THEN v ELSE JFail

JDoc(s) == JWhole(s, JValue(s, SkipWs(s, 1)))

\* json.Unmarshal([]byte(s), &res) with res a string initially "":
\* a string literal is decoded, null leaves res as it is, anything else fails
StringFrom(d) ==
    IF d.ok /\ d.k = "str" THEN [err |-> FALSE, val |-> d.val]
    ELSE IF d.ok /\ d.k = "null" THEN [err |-> FALSE, val |-> << >>]
    ELSE [err |-> TRUE, val |-> << >>]

UnmarshalString(s) == StringFrom(JDoc(s))

\* a slice value: nil, or its elements
NilSlice == [nil |-> TRUE, elems |-> << >>]
Slice(elems) == [nil |-> FALSE, elems |-> elems]

\* one array element stored into an int8: a number that is an integer literal
\* in range is stored; null leaves the zero element; anything else is a type
\* error that leaves the zero element, and decoding goes on
Int8From(r) ==
    IF r.err \/ OverflowInt("int8", r.val) THEN [err |-> TRUE, val |-> 0]
    ELSE [err |-> FALSE, val |-> r.val]

ElemInt8(e) ==
    IF e.k = "num" THEN Int8From(ParseInt(e.val))
    ELSE IF e.k = "null" THEN [err |-> FALSE, val |-> 0]
    ELSE [err |-> TRUE, val |-> 0]

\* json.Unmarshal([]byte(s), res) with res a *[]int8 to a nil slice; val is
\* what res holds afterwards, also when an error is returned
Int8SliceOf(es) ==
    [err |-> \E i \in DOMAIN es : es[i].err,
     val |-> Slice([i \in DOMAIN es |-> es[i].val])]

Int8SliceFrom(d) ==
    IF ~d.ok THEN [err |-> TRUE, val |-> NilSlice]
    ELSE IF d.k = "null" THEN [err |-> FALSE, val |-> NilSlice]
    ELSE IF d.k = "arr" THEN Int8SliceOf([i \in DOMAIN d.val |-> ElemInt8(d.val[i])])
    ELSE [err |-> TRUE, val |-> NilSlice]

UnmarshalInt8Slice(s) == Int8SliceFrom(JDoc(s))

\* json.Marshal of a []int8
RECURSIVE JoinInts(_)
JoinInts(xs) ==
    IF Len(xs) = 0 THEN << >>
    ELSE IF Len(xs) = 1 THEN FormatInt(xs[1])
    ELSE FormatInt(xs[1]) \o <<",">> \o JoinInts(Tail(xs))

MarshalInt8Slice(v) ==
    IF v.nil THEN <<"n","u","l","l">>
    ELSE <<"[">> \o JoinInts(v.elems) \o <<"]">>

(***************************************************************************)
(* Floating point.  A float is named by the shortest decimal that denotes  *)
(* it: [k, neg, digs, dp] stands for 0.d1d2...dn * 10^dp (k = "num", digs  *)
(* without leading or trailing zeros, empty for zero), an infinity         *)
(* (k = "inf") or NaN (k = "nan").  This is exact for decimal literals of  *)
(* at most six significant digits within float32's normal range, which is  *)
(* what the model's argument texts hold; hexadecimal literals are outside  *)
(* the model.                                                              *)
(***************************************************************************)
FloatNum(neg, digs, dp) == [k |-> "num", neg |-> neg, digs |-> digs, dp |-> dp]
FloatZero == FloatNum(FALSE, << >>, 0)
FloatInf(neg) == [k |-> "inf", neg |-> neg, digs |-> << >>, dp |-> 0]
FloatNaN == [k |-> "nan", neg |-> FALSE, digs |-> << >>, dp |-> 0]

RECURSIVE StripTrailingZeros(_)
StripTrailingZeros(s) ==
    IF Len(s) > 0 /\ s[Len(s)] = "0"
    THEN StripTrailingZeros(SubSeq(s, 1, Len(s) - 1)) ELSE s

LowerChar(c) ==
    IF c \in Range(UpperLetters)
    THEN LowerLetters[CHOOSE i \in DOMAIN UpperLetters : UpperLetters[i] = c]
    ELSE c

ToLower(s) == [i \in DOMAIN s |-> LowerChar(s[i])]

\* 0.a > 0.b for digit sequences read as decimal fractions
RECURSIVE FracGreater(_, _)
FracGreater(a, b) ==
    IF Len(a) = 0 THEN FALSE
    ELSE IF Len(b) = 0 THEN \E i \in DOMAIN a : a[i] # "0"
    ELSE IF a[1] # b[1] THEN DigitVal(a[1]) > DigitVal(b[1])
    ELSE FracGreater(Tail(a), Tail(b))

\* math.MaxFloat32 = 0.34028234663852885981... * 10^39
MaxFloat32Digits == <<"3","4","0","2","8","2","3","4","6","6","3","8","5","2","8","8","6">>
\* math.MaxFloat64 = 0.17976931348623157... * 10^309
MaxFloat64Digits == <<"1","7","9","7","6","9","3","1","3","4","8","6","2","3","1","5","7">>

\* the decimal mantissa [int part].[fraction] with exponent e, normalised
Decimal(neg, ip, fp, e) ==
    LET all == ip \o fp
        lead == Len(all) - Len(StripLeadingZeros(all))
        digs == StripTrailingZeros(StripLeadingZeros(all))
    IN IF Len(digs) = 0 THEN FloatNum(neg, << >>, 0)
       ELSE FloatNum(neg, digs, Len(ip) - lead + e)

\* the parsed decimal d, checked against float64's range
FloatResult(d) ==
    IF Len(d.digs) > 0
       /\ (d.dp > 309 \/ (d.dp = 309 /\ FracGreater(d.digs, MaxFloat64Digits)))
    THEN [err |-> TRUE, val |-> FloatInf(d.neg)]
    ELSE IF d.dp < 0 - 323 THEN [err |-> FALSE, val |-> FloatNum(d.neg, << >>, 0)]
    ELSE [err |-> FALSE, val |-> d]

\* the exponent digits body[p3 .. p4-1]; they must be there and end the text
FloatExponent(neg, body, ip, fp, eneg, p3, p4) ==
    IF p4 = p3 \/ p4 <= Len(body) THEN [err |-> TRUE, val |-> FloatZero]
    ELSE FloatResult(Decimal(neg, ip, fp,
             IF eneg THEN 0 - DigitsValue(SubSeq(body, p3, p4 - 1))
             ELSE DigitsValue(SubSeq(body, p3, p4 - 1))))

\* the exponent's sign at p3, if any
FloatExponentSign(neg, body, ip, fp, p3) ==
    IF p3 <= Len(body) /\ body[p3] \in {"+", "-"}
    THEN FloatExponent(neg, body, ip, fp, body[p3] = "-", p3 + 1, DigitRun(body, p3 + 1))
    ELSE FloatExponent(neg, body, ip, fp, FALSE, p3, DigitRun(body, p3))

\* after the mantissa, which ends before p2: an exponent or the end of the text
FloatAfterMantissa(neg, body, ip, fp, p2) ==
    IF Len(ip) + Len(fp) = 0 THEN [err |-> TRUE, val |-> FloatZero]
    ELSE IF p2 <= Len(body) /\ body[p2] \in {"e", "E"}
         THEN FloatExponentSign(neg, body, ip, fp, p2 + 1)
    ELSE IF p2 <= Len(body) THEN [err |-> TRUE, val |-> FloatZero]
    ELSE FloatResult(Decimal(neg, ip, fp, 0))

\* the fraction body[p1+1 .. p2-1] after a decimal point at p1
FloatFraction(neg, body, p1, p2) ==
    FloatAfterMantissa(neg, body, SubSeq(body, 1, p1 - 1), SubSeq(body, p1 + 1, p2 - 1), p2)

\* the mantissa, whose integer digits end before p1
FloatMantissa(neg, body, p1) ==
    IF p1 <= Len(body) /\ body[p1] = "."
    THEN FloatFraction(neg, body, p1, DigitRun(body, p1 + 1))
    ELSE FloatAfterMantissa(neg, body, SubSeq(body, 1, p1 - 1), << >>, p1)

\* the text after the sign
FloatBody(signed, neg, body) ==
    IF ToLower(body) \in {<<"i","n","f">>, <<"i","n","f","i","n","i","t","y">>}
    THEN [err |-> FALSE, val |-> FloatInf(neg)]
    ELSE IF ~signed /\ ToLower(body) = <<"n","a","n">>
    THEN [err |-> FALSE, val |-> FloatNaN]
    ELSE FloatMantissa(neg, body, DigitRun(body, 1))

\* strconv.ParseFloat(s, 64) for decimal literals, "inf" / "infinity" and "nan"
ParseFloat(s) ==
    IF Len(s) = 0 THEN [err |-> TRUE, val |-> FloatZero]
    ELSE IF s[1] \in {"+", "-"} THEN FloatBody(TRUE, s[1] = "-", Tail(s))
    ELSE FloatBody(FALSE, FALSE, s)

\* Value.OverflowFloat for a float32: math.MaxFloat32 < |x| <= math.MaxFloat64
OverflowFloat(x) ==
    /\ x.k = "num" /\ Len(x.digs) > 0
    /\ (x.dp > 39 \/ (x.dp = 39 /\ FracGreater(x.digs, MaxFloat32Digits)))

\* Value.SetFloat for a float32: float32(x); magnitudes below the smallest
\* subnormal become zero
SetFloat(x) ==
    IF x.k = "num" /\ Len(x.digs) > 0 /\ x.dp < 0 - 45
    THEN FloatNum(x.neg, << >>, 0) ELSE x

\* fmt.Sprint of a float32: %v is %g with the shortest representation, which
\* switches to exponent form when the exponent is < -4 or >= 6
FormatFloat(x) ==
    LET sign == IF x.neg THEN <<"-">> ELSE << >>
        nd   == Len(x.digs)
        exp  == x.dp - 1
        aexp == IF exp < 0 THEN 0 - exp ELSE exp
        digit(i) == IF i >= 1 /\ i <= nd THEN x.digs[i] ELSE "0"
        intPart  == IF x.dp > 0 THEN [i \in 1..x.dp |-> digit(i)] ELSE <<"0">>
        prec     == IF nd > x.dp THEN nd - x.dp ELSE 0
        fracPart == IF prec > 0 THEN <<".">> \o [i \in 1..prec |-> digit(x.dp + i)] ELSE << >>
    IN IF x.k = "nan" THEN <<"N","a","N">>
       ELSE IF x.k = "inf" THEN (IF x.neg THEN <<"-">> ELSE <<"+">>) \o <<"I","n","f">>
       ELSE IF nd = 0 THEN sign \o <<"0">>
       ELSE IF exp < 0 - 4 \/ exp >= 6
       THEN sign \o << x.digs[1] >>
               \o (IF nd > 1 THEN <<".">> \o SubSeq(x.digs, 2, nd) ELSE << >>)
               \o <<"e">> \o (IF exp < 0 THEN <<"-">> ELSE <<"+">>)
               \o (IF aexp < 10 THEN <<"0">> ELSE << >>) \o FormatNat(aexp)
       ELSE sign \o intPart \o fracPart

(***************************************************************************)
(* The adapter, reflectedValue{target, description}, bound to a caller's   *)
(* variable.  mem[1] is that variable.  For a pointer type it holds 0      *)
(* (nil) or the address of the cell it points to; the other cells are      *)
(* referents.  The bound variable is a bool, int8, int16, uint8, float32,  *)
(* string or []int8, or a single-level pointer to one of these.            *)
(***************************************************************************)
Bases == {"bool", "int8", "int16", "uint8", "float32", "string", "slice"}

SignedKinds   == {"int8", "int16"}
UnsignedKinds == {"uint8"}

\* the zero value of a type
ZeroOf(base) ==
    CASE base = "bool"    -> FALSE
      [] base = "float32" -> FloatZero
      [] base = "string"  -> << >>
      [] base = "slice"   -> NilSlice
      [] OTHER            -> 0

\* values the caller's variable may hold when the adapter is created
InitValues(base) ==
    CASE base = "bool"    -> {FALSE, TRUE}
      [] base = "int8"    -> {0 - 128, 0 - 1, 0, 124, 127}
      [] base = "int16"   -> {0 - 8413, 0, 32767}
      [] base = "uint8"   -> {0, 124, 255}
      [] base = "float32" -> {FloatZero, FloatNum(FALSE, <<"4","5","5">>, 2), FloatInf(FALSE)}
      [] base = "string"  -> { << >>, <<"h","j","b"," ","u">>, <<"\"","a","\"">>,
                               <<"n","u","l","l">> }
      [] base = "slice"   -> {NilSlice, Slice(<< >>), Slice(<<1, 0 - 2>>)}

\* lines 139-143: fmt.Sprint of a primitive; lines 144-149: json.Marshal otherwise
EncodeBase(base, v) ==
    CASE base = "bool"    -> FormatBool(v)
      [] base = "float32" -> FormatFloat(v)
      [] base = "string"  -> v
      [] base = "slice"   -> MarshalInt8Slice(v)
      [] OTHER            -> FormatInt(v)

\* Variant of EncodeString that returns "" for every pointer.
EncodeString_NoDeref(t, m, a) ==
    IF t.ptr THEN << >> ELSE EncodeBase(t.base, m[a])

\* encodeString(val), val the variable at address a of type t
EncodeString(t, m, a) ==
    IF t.ptr
    THEN (IF m[a] = 0 THEN << >> ELSE EncodeBase(t.base, m[m[a]]))
    ELSE EncodeBase(t.base, m[a])

Fail(m)      == [err |-> TRUE, mem |-> m]
Store(m, a, v) == [err |-> FALSE, mem |-> [m EXCEPT ![a] = v]]
\* if err != nil { return err }; val.Set...(res); return nil
StoreParsed(m, a, r) == IF r.err THEN Fail(m) ELSE Store(m, a, r.val)

\* Variant of DecodeBool that stores the result without looking at the error.
DecodeBool_IgnoreErr(s, m, a) == Store(m, a, ParseBool(s).val)

\* lines 155-160
DecodeBool(s, m, a) == StoreParsed(m, a, ParseBool(s))

\* lines 161-169
StoreFloat(m, a, r) ==
    IF r.err THEN Fail(m)
    ELSE IF OverflowFloat(r.val) THEN Fail(m)
    ELSE Store(m, a, SetFloat(r.val))

DecodeFloat(s, m, a) == StoreFloat(m, a, ParseFloat(s))

\* lines 170-176: a JSON string if it is one, the text itself otherwise
StoreText(s, m, a, r) == Store(m, a, IF r.err THEN s ELSE r.val)

DecodeText(s, m, a) == StoreText(s, m, a, UnmarshalString(s))

\* Variant of IntOverflows that never reports an overflow.
IntOverflows_Never(kind, x) == FALSE

\* lines 182, 191: val.OverflowInt(res) / val.OverflowUint(res)
IntOverflows(kind, x) ==
    IF kind \in SignedKinds THEN OverflowInt(kind, x) ELSE OverflowUint(kind, x)

\* lines 177-185
StoreInt(kind, m, a, r) ==
    IF r.err THEN Fail(m)
    ELSE IF IntOverflows(kind, r.val) THEN Fail(m)
    ELSE Store(m, a, SetInt(kind, r.val))

DecodeInt(s, kind, m, a) == StoreInt(kind, m, a, ParseInt(s))

\* lines 186-194
StoreUint(kind, m, a, r) ==
    IF r.err THEN Fail(m)
    ELSE IF IntOverflows(kind, r.val) THEN Fail(m)
    ELSE Store(m, a, SetUint(kind, r.val))

DecodeUint(s, kind, m, a) == StoreUint(kind, m, a, ParseUint(s))

\* Variant of DecodeJSON that decodes straight into the variable.
StoreInPlace(m, a, r) == [err |-> r.err, mem |-> [m EXCEPT ![a] = r.val]]
DecodeJSON_InPlace(s, m, a) == StoreInPlace(m, a, UnmarshalInt8Slice(s))

\* lines 206-212: decode into a new value, store it only on success
DecodeJSON(s, m, a) == StoreParsed(m, a, UnmarshalInt8Slice(s))

\* the switch of decodeString for a non-pointer kind
DecodeValue(s, base, m, a) ==
    CASE base = "bool"          -> DecodeBool(s, m, a)
      [] base = "float32"       -> DecodeFloat(s, m, a)
      [] base = "string"        -> DecodeText(s, m, a)
      [] base \in SignedKinds   -> DecodeInt(s, base, m, a)
      [] base \in UnsignedKinds -> DecodeUint(s, base, m, a)
      [] OTHER                  -> DecodeJSON(s, m, a)

\* Variant of DecodePtr that always stores the new pointer.
ReplacePtr(m, a, ra, r) ==
    IF r.err THEN Fail(m) ELSE [err |-> FALSE, mem |-> [r.mem EXCEPT ![a] = ra]]
DecodePtr_Replace(s, base, m, a) ==
    ReplacePtr(m, a, Len(m) + 1, DecodeValue(s, base, Append(m, ZeroOf(base)), Len(m) + 1))

\* lines 195-205: res := reflect.New(elem) is the cell at ra; it is kept only
\* when it becomes the referent of a nil pointer
\* lines 199-204, r the outcome of decoding into the new cell ra
StorePtr(m, a, ra, r) ==
    IF r.err THEN Fail(m)
    ELSE IF m[a] = 0
         THEN [err |-> FALSE, mem |-> [r.mem EXCEPT ![a] = ra]]
         ELSE [err |-> FALSE, mem |-> [m EXCEPT ![m[a]] = r.mem[ra]]]

DecodePtr(s, base, m, a) ==
    StorePtr(m, a, Len(m) + 1, DecodeValue(s, base, Append(m, ZeroOf(base)), Len(m) + 1))

\* decodeString(s, val), val the variable at address a of type t
DecodeString(s, t, m, a) ==
    IF t.ptr THEN DecodePtr(s, t.base, m, a) ELSE DecodeValue(s, t.base, m, a)

(***************************************************************************)
(* Argument texts of Set: the texts of the package's tests and neighbours  *)
(* of them, every text of at most MaxTextLen characters over a small       *)
(* alphabet chosen for the kind, and the adapter's own String().           *)
(***************************************************************************)
\* texts tried on every kind
CommonTexts ==
    { << >>,
      <<"i","n","v","a","l","i","d">>,
      <<"y","e","s">>,
      <<"n","o">>,
      <<"1">>,
      <<"0">>,
      <<"-","1">>,
      <<"n","u","l","l">>,
      <<"t","r","u","e">> }

\* TestSetBoolValueWithStrconv, and the capitalised forms
BoolTexts ==
    { <<"T","R","U","E">>,
      <<"t">>,
      <<"T">>,
      <<"f","a","l","s","e">>,
      <<"F","A","L","S","E">>,
      <<"f">>,
      <<"F">>,
      <<"T","r","u","e">>,
      <<"F","a","l","s","e">> }

\* TestErrorOnIntOverflow, TestSetIntValueWithStrconv, TestSetUintValueWithStrconv, and the limits of each width
IntTexts ==
    { <<"+","0">>,
      <<"-","0">>,
      <<"1","3","4","3">>,
      <<"+","9","6","1">>,
      <<"-","5","4","2","2">>,
      <<"5","5","5">>,
      <<"1","2","7">>,
      <<"1","2","8">>,
      <<"-","1","2","8">>,
      <<"-","1","2","9">>,
      <<"2","5","5">>,
      <<"2","5","6">>,
      <<"3","2","7","6","7">>,
      <<"3","2","7","6","8">>,
      <<"-","3","2","7","6","8">>,
      <<"-","3","2","7","6","9">>,
      <<"+","1">>,
      <<"0","0","7">> }

\* TestSetFloat32ValueWithStrconv
FloatTexts ==
    { <<"i","n","f">>,
      <<"1","3","4","3">>,
      <<"3","2","5",".","6","e","3">>,
      <<"1","e","5","0">>,
      <<"1",".","5">>,
      <<"-","2",".","5","e","-","3">> }

\* TestSetStringValue, TestSetJSONStringValue
StringTexts ==
    { <<"a","b"," ","c">>,
      <<"\"","a","b"," ","c","\"">>,
      <<"\"","a","\\","n","b","\"">>,
      <<"\"","a","b">>,
      <<" ","\"","a","\""," ">> }

\* TestSetIntSliceFromJSON, TestSetReturnsErrorOnInvalidJSON
SliceTexts ==
    { <<"[","1",","," ","2",","," ","4",","," ","4","]">>,
      <<"[","1",",","5","5","5","]">>,
      <<"[","0",".","5",","," ","0",".","9">>,
      <<"[","]">>,
      <<"[","1",",","[","2","]",",","3","]">>,
      <<"[","\"","a","\"","]">>,
      <<"[","n","u","l","l",",","7","]">> }

KindTexts(base) ==
    CASE base = "bool"    -> BoolTexts
      [] base = "float32" -> FloatTexts
      [] base = "string"  -> StringTexts
      [] base = "slice"   -> SliceTexts
      [] OTHER            -> IntTexts

Alphabet(base) ==
    CASE base = "bool"    -> {"t", "T", "f", "F", "0", "1", "y"}
      [] base = "float32" -> {"1", "e", ".", "-"}
      [] base = "string"  -> {"\"", "a", "\\"}
      [] base = "slice"   -> {"[", "]", "1", ","}
      [] OTHER            -> {"0", "1", "5", "-", "+"}

ShortTexts(base) == UNION { [1..n -> Alphabet(base)] : n \in 0..MaxTextLen }

ArgTexts ==
    CommonTexts \cup KindTexts(vtype.base) \cup ShortTexts(vtype.base)
        \cup {EncodeString(vtype, mem, 1)}

Call(op, text, err, res) ==
    [op |-> op, text |-> text, err |-> err, res |-> res,
     pre |-> mem, str |-> EncodeString(vtype, mem, 1)]

ValueInit ==
    /\ vtype \in [ptr : BOOLEAN, base : Bases]
    /\ mem \in IF vtype.ptr
               THEN {<<0>>} \cup { <<2, v>> : v \in InitValues(vtype.base) }
               ELSE { <<v>> : v \in InitValues(vtype.base) }
    /\ alias = IF vtype.ptr /\ mem[1] # 0 THEN 2 ELSE 0
    /\ vdesc \in {"", "Name of input file"}
    /\ last = [op |-> "new", text |-> << >>, err |-> FALSE, res |-> << >>,
               pre |-> mem, str |-> << >>]
    /\ conv = [WordSeparator |-> <<"-">>, DescriptionTag |-> "description",
               NameConverterFunc |-> "identity"]
    /\ rootType = "empty"
    /\ rootDepth = 1
    /\ heap = << >>
    /\ stack = << >>
    /\ output = EmptyMap
    /\ fresh = {}
    /\ pc = "value"

\* decodeString has left the memory r.mem and returned the error r.err
Returns(text, r) ==
    /\ mem' = r.mem
    /\ last' = Call("Set", text, r.err, << >>)

\* (*reflectedValue).Set, lines 128-130
Set ==
    /\ pc = "value"
    /\ \E text \in ArgTexts : Returns(text, DecodeString(text, vtype, mem, 1))
    /\ UNCHANGED <<vtype, alias, vdesc>>
    /\ UNCHANGED walkVars

\* (*reflectedValue).String, lines 117-119
String ==
    /\ pc = "value"
    /\ last' = Call("String", << >>, FALSE, EncodeString(vtype, mem, 1))
    /\ UNCHANGED <<vtype, mem, alias, vdesc>>
    /\ UNCHANGED walkVars

\* (*reflectedValue).IsBoolFlag, lines 111-113: reflect.Indirect of a nil
\* pointer is the zero Value, whose Kind is Invalid
IsBoolFlag ==
    /\ pc = "value"
    /\ last' = Call("IsBoolFlag", << >>, FALSE,
                    vtype.base = "bool" /\ (vtype.ptr => mem[1] # 0))
    /\ UNCHANGED <<vtype, mem, alias, vdesc>>
    /\ UNCHANGED walkVars

\* (*reflectedValue).Get, lines 122-124
Get ==
    /\ pc = "value"
    /\ last' = Call("Get", << >>, FALSE, mem[1])
    /\ UNCHANGED <<vtype, mem, alias, vdesc>>
    /\ UNCHANGED walkVars

\* (*reflectedValue).Description, lines 105-107
Description ==
    /\ pc = "value"
    /\ last' = Call("Description", << >>, FALSE, vdesc)
    /\ UNCHANGED <<vtype, mem, alias, vdesc>>
    /\ UNCHANGED walkVars

ValueNext ==
    \/ Set
    \/ String
    \/ IsBoolFlag
    \/ Get
    \/ Description

ValueSpec == ValueInit /\ [][ValueNext]_vars

(***************************************************************************)
(* What the walk is expected to produce, stated on the type alone.         *)
(* A chain is the sequence of field indices leading from the root struct   *)
(* to a field, through exported struct and pointer-to-struct fields.       *)
(***************************************************************************)
IsAggregate(fd) == fd.kind = "struct" \/ (fd.kind = "ptr" /\ fd.elemKind = "struct")

\* chains ending in an exported field that is not an aggregate; n bounds the nesting
RECURSIVE LeafChainsN(_, _)
LeafChainsN(T, n) ==
    IF n = 0 THEN {}
    ELSE UNION { LET fd == Types[T][i] IN
                 IF ~IsExported(fd.name) THEN {}
                 ELSE IF IsAggregate(fd)
                      THEN { <<i>> \o c : c \in LeafChainsN(fd.typ, n - 1) }
                      ELSE { <<i>> }
               : i \in DOMAIN Types[T] }

LeafChains(T) == LeafChainsN(T, Cardinality(TypeNames))

\* chains ending in an exported pointer-to-struct field
RECURSIVE PtrStructChainsN(_, _)
PtrStructChainsN(T, n) ==
    IF n = 0 THEN {}
    ELSE UNION { LET fd == Types[T][i] IN
                 IF ~IsExported(fd.name) \/ ~IsAggregate(fd) THEN {}
                 ELSE (IF fd.kind = "ptr" THEN { <<i>> } ELSE {})
                      \cup { <<i>> \o c : c \in PtrStructChainsN(fd.typ, n - 1) }
               : i \in DOMAIN Types[T] }

PtrStructChains(T) == PtrStructChainsN(T, Cardinality(TypeNames))

\* the joined path of a chain: renamed field names separated by sep
RECURSIVE ChainPath(_, _, _, _)
ChainPath(T, c, sep, fn) ==
    LET fd == Types[T][c[1]]
        nm == IF fn = "upper" THEN ToUpper(fd.name) ELSE fd.name
    IN IF Len(c) = 1 THEN nm
       ELSE nm \o sep \o ChainPath(fd.typ, Tail(c), sep, fn)

\* the instance holding the last field of a chain (0 if a pointer on the way is nil)
RECURSIVE Holder(_, _)
Holder(obj, c) ==
    IF obj = 0 \/ Len(c) = 1 THEN obj
    ELSE Holder(heap[obj].f[c[1]], Tail(c))

\* the value stored in the field a chain ends in (0 = nil)
ChainValue(c) ==
    IF Holder(1, c) = 0 THEN 0 ELSE heap[Holder(1, c)].f[c[Len(c)]]

\* struct types nested in T through any field, T included
RECURSIVE NestedTypesN(_, _)
NestedTypesN(T, n) ==
    IF n = 0 THEN {T}
    ELSE {T} \cup UNION { IF IsAggregate(Types[T][i])
                          THEN NestedTypesN(Types[T][i].typ, n - 1) ELSE {}
                        : i \in DOMAIN Types[T] }

NestedTypes(T) == NestedTypesN(T, Cardinality(TypeNames))

DefaultConfig ==
    conv.WordSeparator = <<"-">> /\ conv.NameConverterFunc = "identity"

Returned == pc = "returned" /\ rootDepth = 1

(***************************************************************************)
(* C1: for a root passed by reference, with the default separator "-" and  *)
(* the identity rename, the keys of the returned map are exactly the       *)
(* joined paths of the exported non-struct fields reached through exported *)
(* struct and pointer-to-struct fields: same members, same count, and each *)
(* key's adapter is bound to that field; struct fields, pointer-to-struct  *)
(* fields and unexported fields have no key.                               *)
(***************************************************************************)
C1_KeysAreLeafPaths ==
    (Returned /\ DefaultConfig) =>
        /\ DOMAIN output = { ChainPath(rootType, c, <<"-">>, "identity") : c \in LeafChains(rootType) }
        /\ Cardinality(DOMAIN output) = Cardinality(LeafChains(rootType))
        /\ \A c \in LeafChains(rootType) :
              output[ChainPath(rootType, c, <<"-">>, "identity")].target
                  = << Holder(1, c), c[Len(c)] >>

\* TestDefaultStructKeys: param yields its eleven keys, "Nested-IntPtr" among them
C1_Witness ==
    /\ Returned /\ DefaultConfig
    /\ rootType = "param"
    /\ Cardinality(DOMAIN output) = 11
    /\ <<"N","e","s","t","e","d","-","I","n","t","P","t","r">> \in DOMAIN output
    /\ <<"I","n","t","A","r","r","a","y">> \in DOMAIN output

(***************************************************************************)
(* C2: after Convert returns, every exported pointer-to-struct field       *)
(* reachable from the root is non-nil; with the default configuration the  *)
(* field's own path is not a key and each leaf below it is keyed by the    *)
(* field's path, the separator, and the rest of the leaf's path.  For the  *)
(* documented args example the keys are exactly Debug, InputFile,          *)
(* Extra-WrapLines, Extra-Pages and Extra is non-nil.                      *)
(***************************************************************************)
C2_NilStructPointersAllocated ==
    Returned =>
        /\ \A c \in PtrStructChains(rootType) : ChainValue(c) # 0
        /\ DefaultConfig =>
             \A c \in PtrStructChains(rootType) :
                /\ ChainPath(rootType, c, <<"-">>, "identity") \notin DOMAIN output
                /\ \A l \in LeafChains(rootType) :
                      (Len(l) > Len(c) /\ SubSeq(l, 1, Len(c)) = c) =>
                          /\ ChainPath(rootType, c, <<"-">>, "identity") \o <<"-">>
                                \o ChainPath(heap[ChainValue(c)].type,
                                             SubSeq(l, Len(c) + 1, Len(l)), <<"-">>, "identity")
                                \in DOMAIN output
        /\ (DefaultConfig /\ rootType = "args") =>
              /\ DOMAIN output = { <<"D","e","b","u","g">>,
                                   <<"I","n","p","u","t","F","i","l","e">>,
                                   <<"E","x","t","r","a","-","W","r","a","p","L","i","n","e","s">>,
                                   <<"E","x","t","r","a","-","P","a","g","e","s">> }
              /\ heap[1].f[3] # 0

\* the args example, Extra nil on entry and allocated by the walk
C2_Witness ==
    /\ Returned /\ DefaultConfig
    /\ rootType = "args"
    /\ heap[1].f[3] \in fresh
    /\ Cardinality(DOMAIN output) = 4

(***************************************************************************)
(* C8 as stated: for every WordSeparator and NameConverterFunc the number  *)
(* of entries of the returned map equals the number of reachable leaf      *)
(* fields.                                                                 *)
(***************************************************************************)
C8_CardinalityAnyConfig ==
    Returned => Cardinality(DOMAIN output) = Cardinality(LeafChains(rootType))

\* the configuration keeps paths apart: the separator is one character that
\* occurs in no converted field name, and the rename is injective on the
\* field names of each struct
SafeConfig ==
    /\ Len(conv.WordSeparator) = 1
    /\ \A T \in NestedTypes(rootType) :
          /\ \A i \in DOMAIN Types[T] :
                conv.WordSeparator[1]
                    \notin Range(NameConverterFunc(conv.NameConverterFunc, Types[T][i].name))
          /\ \A i, j \in DOMAIN Types[T] :
                i # j => NameConverterFunc(conv.NameConverterFunc, Types[T][i].name)
                           # NameConverterFunc(conv.NameConverterFunc, Types[T][j].name)

(***************************************************************************)
(* C8 amended: when the separator is a single character occurring in no    *)
(* converted field name and the rename maps the distinct field names of    *)
(* each struct to distinct names, distinct reachable leaves get distinct   *)
(* paths: the map has one entry per reachable leaf field (the count the    *)
(* default configuration gives), keyed by the leaf's joined path.          *)
(***************************************************************************)
C8_CardinalitySafeConfig ==
    (Returned /\ SafeConfig) =>
        /\ Cardinality(DOMAIN output) = Cardinality(LeafChains(rootType))
        /\ DOMAIN output = { ChainPath(rootType, c, conv.WordSeparator, conv.NameConverterFunc)
                             : c \in LeafChains(rootType) }

\* TestCustomSeparator and TestCustomNameFunction combined: "." and upper-casing
C8_Witness ==
    /\ Returned /\ SafeConfig
    /\ rootType = "param"
    /\ conv.WordSeparator = <<".">> /\ conv.NameConverterFunc = "upper"
    /\ Cardinality(DOMAIN output) = 11
    /\ <<"N","E","S","T","E","D","P","T","R",".","F","L","O","A","T">> \in DOMAIN output

(***************************************************************************)
(* C9: given a pointer to a pointer to a struct, as in the documented      *)
(* example a := &args{}; Convert(&a), Convert does not crash.              *)
(***************************************************************************)
C9_PointerToPointerRoot ==
    rootDepth = 2 => pc # "panic"

(***************************************************************************)
(* C10: the walk never exhausts the stack, so it returns, for every root   *)
(* aggregate, including one whose type has a pointer field to its own type *)
(* that is nil on entry.                                                   *)
(***************************************************************************)
C10_WalkTerminates ==
    pc # "overflow"


(***************************************************************************)
(* What Set and String are expected to do, stated on the memory before     *)
(* and after the last call.                                                *)
(***************************************************************************)
\* the value the adapter's variable stands for: the referent of a pointer
SlotValue(m) == IF vtype.ptr THEN m[m[1]] ELSE m[1]

SetDone == last.op = "Set" /\ ~last.err
SetFailed == last.op = "Set" /\ last.err

\* C3: whenever Set returns an error, the variable and every cell it can
\* reach hold exactly what they held before the call: a nil pointer stays
\* nil, a non-nil pointer keeps its address and its referent, and a slice is
\* not partially overwritten.
C3_FailedSetLeavesSlot == SetFailed => mem = last.pre

\* a pointer to a non-nil slice was given an array with an element that does
\* not fit, and Set returned an error
C3_Witness ==
    /\ SetFailed
    /\ vtype = [ptr |-> TRUE, base |-> "slice"]
    /\ last.pre = <<2, Slice(<<1, 0 - 2>>)>>
    /\ last.text = <<"[","1",",","5","5","5","]">>

\* the value a text parses to for the pointer's element type
ParsedValue == DecodeValue(last.text, vtype.base, <<ZeroOf(vtype.base)>>, 1).mem[1]

PointerKept(parsed) ==
    /\ mem[1] # 0
    /\ mem[mem[1]] = parsed
    /\ last.pre[1] # 0 =>
          /\ mem[1] = last.pre[1]
          /\ Len(mem) = Len(last.pre)
          /\ alias # 0 => mem[alias] = parsed
    /\ last.pre[1] = 0 => mem[1] \notin DOMAIN last.pre

\* C4: a successful Set on a pointer never replaces an existing pointer: a
\* non-nil pointer is the same afterwards and the parsed value is in its
\* referent, where the caller's other pointer to it (alias) sees it; a nil
\* pointer points afterwards to a new cell that holds the parsed value.
C4_SetKeepsPointer == (SetDone /\ vtype.ptr) => PointerKept(ParsedValue)

\* Set("1343") on a non-nil *int16 holding another value
C4_Witness ==
    /\ SetDone
    /\ vtype = [ptr |-> TRUE, base |-> "int16"]
    /\ last.pre = <<2, 0 - 8413>>
    /\ last.text = <<"1","3","4","3">>
    /\ mem = <<2, 1343>>

\* the leaves of the round-trip law: bool, integers, text, and pointers to them
RoundTripKinds == {"bool", "int8", "int16", "uint8", "string"}

\* the last call was Set(String())
SetOfString == last.op = "Set" /\ last.text = last.str /\ vtype.base \in RoundTripKinds

\* C5 as stated: for every such leaf, a nil pointer included, and every value
\* it holds, Set(String()) succeeds and leaves the value unchanged.
C5_RoundTripEveryValue == SetOfString => (~last.err /\ mem = last.pre)

\* a text that json.Unmarshal accepts as a string: a JSON string literal or null
IsJSONText(s) == ~UnmarshalString(s).err

\* C5, amended: for every such leaf that is not a nil pointer and does not
\* hold a text that is itself a JSON string literal or JSON null,
\* Set(String()) succeeds and leaves the value unchanged.
C5_RoundTrip ==
    (/\ SetOfString
     /\ ~(vtype.ptr /\ last.pre[1] = 0)
     /\ ~(vtype.base = "string" /\ IsJSONText(last.str)))
    => (~last.err /\ mem = last.pre)

\* Set(String()) on a non-nil *int16 holding -8413
C5_Witness ==
    /\ SetOfString
    /\ vtype = [ptr |-> TRUE, base |-> "int16"]
    /\ last.pre = <<2, 0 - 8413>>
    /\ last.text = <<"-","8","4","1","3">>
    /\ ~last.err
    /\ mem = last.pre

\* a base-10 numeral: an optional sign and one or more digits
Unsigned(s) == IF Len(s) > 0 /\ s[1] \in {"+", "-"} THEN Tail(s) ELSE s
IsNumeral(s) == Len(Unsigned(s)) > 0 /\ AllDigits(Unsigned(s))
NumeralValue(s) ==
    IF s[1] = "-" THEN 0 - DigitsValue(Unsigned(s)) ELSE DigitsValue(Unsigned(s))

\* the values of an integer type
InRange(kind, x) ==
    CASE kind = "int8"  -> x >= 0 - 128 /\ x <= 127
      [] kind = "int16" -> x >= 0 - 32768 /\ x <= 32767
      [] kind = "uint8" -> x >= 0 /\ x <= 255

IntegerKinds == SignedKinds \cup UnsignedKinds

OverflowLaw(x) ==
    /\ last.err <=> ~InRange(vtype.base, x)
    /\ ~last.err => SlotValue(mem) = x

\* C6 as stated: on an integer leaf, signed or unsigned, Set with a base-10
\* numeral returns an error exactly when the numeral's value is outside the
\* type's range, and otherwise stores that value.
C6_OverflowAnyNumeral ==
    (last.op = "Set" /\ vtype.base \in IntegerKinds /\ IsNumeral(last.text))
    => OverflowLaw(NumeralValue(last.text))

\* C6, amended: the same, where the numeral of an unsigned leaf is digits
\* only; a numeral with a sign is one for signed leaves alone.
C6_Overflow ==
    (/\ last.op = "Set"
     /\ vtype.base \in IntegerKinds
     /\ IsNumeral(last.text)
     /\ vtype.base \in UnsignedKinds => AllDigits(last.text))
    => OverflowLaw(NumeralValue(last.text))

\* "555" into an int8 is refused and the int8 keeps its value
C6_Witness ==
    /\ SetFailed
    /\ vtype = [ptr |-> FALSE, base |-> "int8"]
    /\ last.text = <<"5","5","5">>
    /\ mem = <<124>>

TrueTokens  == { <<"t","r","u","e">>, <<"T","R","U","E">>, <<"t">>, <<"T">>, <<"1">> }
FalseTokens == { <<"f","a","l","s","e">>, <<"F","A","L","S","E">>, <<"f">>, <<"F">>, <<"0">> }

BoolGrammar(true, false) ==
    /\ ~last.err <=> last.text \in true \cup false
    /\ ~last.err => SlotValue(mem) = (last.text \in true)

\* C7 as stated: Set on a bool succeeds exactly for true, TRUE, t, T, 1
\* (the bool becomes true) and false, FALSE, f, F, 0 (it becomes false).
C7_BoolGrammarTenTokens ==
    (last.op = "Set" /\ vtype.base = "bool") => BoolGrammar(TrueTokens, FalseTokens)

\* C7, amended: the accepted tokens are those ten and True and False; every
\* other text is refused with an error.
C7_BoolGrammar ==
    (last.op = "Set" /\ vtype.base = "bool")
    => BoolGrammar(TrueTokens \cup { <<"T","r","u","e">> },
                   FalseTokens \cup { <<"F","a","l","s","e">> })

\* "yes" is refused
C7_Witness ==
    /\ SetFailed
    /\ vtype.base = "bool"
    /\ last.text = <<"y","e","s">>

====
